---------------------------- MODULE Spec2Model ----------------------------
(***************************************************************************)
(* PKP Intercity timetable -> GTFS converter.                              *)
(*                                                                         *)
(* Two programs live in the repository and both are modelled here:         *)
(*   - src/pkpic.py: the standalone converter (train_loader, train_legs,   *)
(*     PKPIntercityGTFS.save_trips, version_check, create);                *)
(*   - src/pkpic_gtfs: the pipeline task (train_rows, parse_train,         *)
(*     LoadCSV.execute, FTPResource.fetch).                                *)
(*                                                                         *)
(* Representation of the CSV values:                                       *)
(*   - a wall-clock string "HH:MM:SS" is the triple of its digit groups,   *)
(*     each a sequence of decimal digits (<<2,3>> for "23"); the empty     *)
(*     string is <<>>;                                                     *)
(*   - a platform / track / name string is a TLA+ string, "" when empty;   *)
(*   - BUS is the integer int(row["BUS"]) of the "0"/"1" column;           *)
(*   - a train number is the sequence of its characters, a trip id the     *)
(*     sequence of the pieces concatenated by the code.                    *)
(*                                                                         *)
(* Specifications, one per aspect, each with its own set of input files:   *)
(*   Spec         save_trips on one train (modes, unmatched stations)      *)
(*   SpecLegs     train_legs on row values                                 *)
(*   SpecRefs     train_legs on row objects behind references              *)
(*   SpecPipeline LoadCSV.execute on one train                             *)
(*   SpecStops    save_trips on two trains (the missing-stops report)      *)
(*   SpecRun      runs of create and calls of FTPResource.fetch            *)
(*   SpecGroup    train_loader and train_rows, row by row                  *)
(*   SpecTimes    the time fixups of save_trips and LoadCSV.execute        *)
(*   SpecCarry    save_trips on trains changing mode past midnight         *)
(***************************************************************************)
EXTENDS Integers, Sequences, FiniteSets, TLC

VARIABLES
    csv,            \* the rows of the input file, in file order
    stops,          \* PKPIntercityGTFS.stops: the canonical stop names
    pc,             \* position of the program
    legs,           \* the legs train_legs has yielded
    trips,          \* rows written to gtfs/trips.txt
    stop_times,     \* rows written to gtfs/stop_times.txt
    transfers,      \* PKPIntercityGTFS.transfers
    stops_used,     \* PKPIntercityGTFS.stops_used
    stops_invalid,  \* PKPIntercityGTFS.stops_invalid
    routes,         \* PKPIntercityGTFS.routes
    services,       \* PKPIntercityGTFS.services
    upstream,       \* modification time of the archive on the FTP server
    version_txt,    \* content of version.txt, NoVersion while the file is missing
    self_version,   \* PKPIntercityGTFS.version of the run of create
    ignore_version, \* the force flag of the run of create
    new_version,    \* what version_check returned
    run_pc,         \* position of the run of create
    gtfs,           \* the files in the gtfs directory
    touched,        \* the run of create has cleared or written the gtfs directory
    completed,      \* the versions some run of create compressed a feed of
    prev_run,       \* version and outcome of the run of create before this one
    last_modified,  \* FTPResource.last_modified
    fetch_call,     \* arguments and server time of the last call of fetch
    fetch_result,   \* how the last call of fetch ended, and whether it yielded
    grouper,        \* which row grouper reads the file: train_loader or train_rows
    reader,         \* number of rows the grouper has taken from its row stream
    loader,         \* the grouper's locals: previous_train_id, previous_train_data
    train_groups,   \* the groups the grouper has yielded, in order
    heap,           \* the row objects (dicts) alive, by reference
    leg_refs        \* the legs train_legs has yielded, as lists of references

outVars == <<trips, stop_times, transfers, stops_used, stops_invalid,
             routes, services>>

convVars == <<csv, stops, pc, legs, outVars>>

runVars == <<upstream, version_txt, self_version, ignore_version, new_version,
             run_pc, gtfs, touched, completed, prev_run>>

fetchVars == <<last_modified, fetch_call, fetch_result>>

loaderVars == <<grouper, reader, loader, train_groups>>

heapVars == <<heap, leg_refs>>

vars == <<convVars, runVars, fetchVars, loaderVars, heapVars>>

-----------------------------------------------------------------------------
(* Generic helpers *)

Range(s) == {s[i] : i \in 1..Len(s)}

\* All sequences over S of length lo..hi
SeqsOf(S, lo, hi) == UNION {[1..n -> S] : n \in lo..hi}

\* previous_bus_value = None / set_bus=None
None == -1

\* Python's `x or y` on strings: x unless it is empty
OrStr(x, y) == IF x # "" THEN x ELSE y

\* Python's `x or y` on wall-clock strings
OrTime(x, y) == IF x # <<>> THEN x ELSE y

-----------------------------------------------------------------------------
(* Row copies: src/pkpic.py row_dep_only / row_arr_only *)

\* A plausible slip: the copy keeps the arrival side as it was.
row_dep_only_nobackfill(row, set_bus) ==
    IF set_bus # None THEN [row EXCEPT !.BUS = set_bus] ELSE row

row_dep_only(row, set_bus) ==
    LET r1 == IF set_bus # None THEN [row EXCEPT !.BUS = set_bus] ELSE row
    IN  [r1 EXCEPT !.Przyjazd   = OrTime(r1.Odjazd, r1.Przyjazd),
                   !.PeronWjazd = OrStr(r1.PeronWyjazd, r1.PeronWjazd),
                   !.TorWjazd   = OrStr(r1.TorWyjazd, r1.TorWjazd)]

row_arr_only(row, set_bus) ==
    LET r1 == IF set_bus # None THEN [row EXCEPT !.BUS = set_bus] ELSE row
    IN  [r1 EXCEPT !.Odjazd      = OrTime(r1.Przyjazd, r1.Odjazd),
                   !.PeronWyjazd = OrStr(r1.PeronWjazd, r1.PeronWyjazd),
                   !.TorWyjazd   = OrStr(r1.TorWjazd, r1.TorWyjazd)]

\* A plausible slip: the boundary row keeps the split-point row's own mode
Xor0(x) == x

\* current_bus_value ^ 1
Xor1(x) == IF x % 2 = 0 THEN x + 1 ELSE x - 1

-----------------------------------------------------------------------------
(* Leg splitter: src/pkpic.py train_legs *)

RECURSIVE LegsLoop(_, _, _, _, _)
LegsLoop(rows, i, previous_bus_value, leg_so_far, yielded) ==
    IF i > Len(rows)
    THEN IF Len(leg_so_far) > 1 THEN Append(yielded, leg_so_far) ELSE yielded
    ELSE LET row == rows[i]
             current_bus_value == row.BUS
         IN  IF current_bus_value # previous_bus_value
             THEN LegsLoop(rows, i + 1, current_bus_value,
                           <<row_dep_only(row, None)>>,
                           IF Len(leg_so_far) > 1
                           THEN Append(yielded,
                                       Append(leg_so_far,
                                              row_arr_only(row, Xor1(current_bus_value))))
                           ELSE yielded)
             ELSE LegsLoop(rows, i + 1, previous_bus_value,
                           Append(leg_so_far, row), yielded)

train_legs(rows) == LegsLoop(rows, 1, None, <<>>, <<>>)

-----------------------------------------------------------------------------
(* Wall-clock strings: src/pkpic.py time_to_list / time_to_str *)

\* int() of a string of decimal digits
RECURSIVE StrToInt(_)
StrToInt(ds) ==
    IF ds = <<>> THEN 0 ELSE 10 * StrToInt(SubSeq(ds, 1, Len(ds) - 1)) + ds[Len(ds)]

\* str() of a natural number, as its decimal digits
RECURSIVE IntToStr(_)
IntToStr(n) == IF n < 10 THEN <<n>> ELSE Append(IntToStr(n \div 10), n % 10)

\* f"{n:0>2}": right-aligned in a field of width 2, filled with "0"
Pad2(n) == IF Len(IntToStr(n)) < 2 THEN <<0>> \o IntToStr(n) ELSE IntToStr(n)

\* "HH:MM:SS" -> [h, m, s]; the empty string does not split into three
\* fields and int() raises ValueError
TimeParses(text) == Len(text) = 3

time_to_list(text) == <<StrToInt(text[1]), StrToInt(text[2]), StrToInt(text[3])>>

time_to_str(t) == <<Pad2(t[1]), Pad2(t[2]), Pad2(t[3])>>

\* Python's list comparison a < b on [h, m, s]
ListLess(a, b) ==
    \/ a[1] < b[1]
    \/ a[1] = b[1] /\ a[2] < b[2]
    \/ a[1] = b[1] /\ a[2] = b[2] /\ a[3] < b[3]

\* Seconds denoted by an emitted "HH:MM:SS" string (the normalized timeline)
StrSeconds(text) ==
    StrToInt(text[1]) * 3600 + StrToInt(text[2]) * 60 + StrToInt(text[3])

\* while t < lower: t[0] += 24
RECURSIVE AddDaysWhileLess(_, _)
AddDaysWhileLess(t, lower) ==
    IF ListLess(t, lower)
    THEN AddDaysWhileLess([t EXCEPT ![1] = @ + 24], lower)
    ELSE t

-----------------------------------------------------------------------------
(* Names, ids *)

\* str.upper() on the names and platform strings the inputs use
Upper(s) ==
    CASE s = "Warszawa" -> "WARSZAWA"
      [] s = "Bohumin"  -> "BOHUMIN"
      [] s = "Krynica"  -> "KRYNICA"
      [] s = "Nigdzie"  -> "NIGDZIE"
      [] s = "Bus"      -> "BUS"
      [] s = "null"     -> "NULL"
      [] OTHER          -> s

\* FIX_STOPS.get(stop_name, stop_name), on the entries the inputs reach
FIX_STOPS(stop_name) ==
    CASE stop_name = "BOHUMIN" -> "BOGUMIN"
      [] stop_name = "KRYNICA" -> "KRYNICA ZDROJ"
      [] OTHER                 -> stop_name

\* NrPociagu.replace("/", "-")
ReplaceSlash(nr) == [i \in 1..Len(nr) |-> IF nr[i] = "/" THEN "-" ELSE nr[i]]

\* KategoriaHandlowa.replace("  ", " ")
CollapseSpaces(c) == IF c = "IC  EIC" THEN "IC EIC" ELSE c

\* service_id + "_" + NrPociagu.replace("/", "-")
TrainId(row) == <<row.DataOdjazdu, "_">> \o ReplaceSlash(row.NrPociagu)

\* train_id + "_" + str(leg_suffix)
LegId(train_id, leg_suffix) == train_id \o <<"_", ToString(leg_suffix)>>

\* train_id + "_" + str(leg_suffix - 1)
PrevLegId(train_id, leg_suffix) == LegId(train_id, leg_suffix - 1)

\* f"ZKA {category}" if is_bus else category
RouteId(category, is_bus) == IF is_bus THEN <<"ZKA ", category>> ELSE <<category>>

-----------------------------------------------------------------------------
(* Row grouper: src/pkpic.py train_loader *)

RowKey(row) == <<row.DataOdjazdu, row.NrPociagu>>

RECURSIVE LoaderLoop(_, _, _, _, _)
LoaderLoop(rows, i, previous_train_id, previous_train_data, yielded) ==
    IF i > Len(rows)
    THEN IF previous_train_data # <<>> THEN Append(yielded, previous_train_data)
         ELSE yielded
    ELSE LET row == rows[i]
             train_id == RowKey(row)
         IN  IF previous_train_id # train_id
             THEN LoaderLoop(rows, i + 1, train_id, <<row>>,
                             IF previous_train_data # <<>>
                             THEN Append(yielded, previous_train_data)
                             ELSE yielded)
             ELSE LoaderLoop(rows, i + 1, previous_train_id,
                             Append(previous_train_data, row), yielded)

train_loader(rows) == LoaderLoop(rows, 1, <<>>, <<>>, <<>>)

\* sorted(rows, key=lambda i: int(i["Lp"])): a stable sort
RECURSIVE InsertByLp(_, _)
InsertByLp(sorted, row) ==
    IF sorted = <<>> THEN <<row>>
    ELSE IF sorted[Len(sorted)].Lp <= row.Lp THEN Append(sorted, row)
         ELSE Append(InsertByLp(SubSeq(sorted, 1, Len(sorted) - 1), row),
                     sorted[Len(sorted)])

RECURSIVE SortedByLp(_)
SortedByLp(rows) ==
    IF rows = <<>> THEN <<>>
    ELSE InsertByLp(SortedByLp(SubSeq(rows, 1, Len(rows) - 1)), rows[Len(rows)])

\* [i for i in train_rows if i["StacjaHandlowa"] == "1"], sorted on Lp
ValidRows(train_rows) ==
    SortedByLp(SelectSeq(train_rows, LAMBDA r : r.StacjaHandlowa = "1"))

-----------------------------------------------------------------------------
(* Trip/feed emitter: src/pkpic.py PKPIntercityGTFS.save_trips *)

\* The accumulators of one run of save_trips
EmptyAcc ==
    [trips |-> <<>>, stop_times |-> <<>>, transfers |-> <<>>,
     stops_used |-> {}, stops_invalid |-> {}, routes |-> {}, services |-> {},
     previous_dep |-> <<0, 0, 0>>, failed |-> FALSE]

\* platform_dep or platform_arr, "BUS" and "NULL" blanked
Platform(row) ==
    LET platform_arr == IF Upper(row.PeronWjazd) \in {"BUS", "NULL"} THEN ""
                        ELSE row.PeronWjazd
        platform_dep == IF Upper(row.PeronWyjazd) \in {"BUS", "NULL"} THEN ""
                        ELSE row.PeronWyjazd
    IN  OrStr(platform_dep, platform_arr)

\* stop_name in self.stops
StopKnown(stop_name, known) == stop_name \in known

\* A plausible slip: the missing-stops report is keyed on the id and the raw name
InvalidEntryRaw(row) == <<row.NumerStacji, row.NazwaStacji>>

\* (stop_id, stop_name) with stop_name upper-cased and fixed
InvalidEntry(row) == <<row.NumerStacji, FIX_STOPS(Upper(row.NazwaStacji))>>

\* The body of `for seq, row in enumerate(...)`, lines 434-477 and 502-545
StopTimeStep(acc, known, trip_id, seq, row) ==
    LET stop_id   == row.NumerStacji
        stop_name == FIX_STOPS(Upper(row.NazwaStacji))
    IN  IF acc.failed THEN acc
        ELSE IF StopKnown(stop_name, known)
        THEN IF ~(TimeParses(row.Przyjazd) /\ TimeParses(row.Odjazd))
             THEN [acc EXCEPT !.stops_used = @ \cup {<<stop_id, stop_name>>},
                              !.failed = TRUE]
             ELSE LET arr == AddDaysWhileLess(time_to_list(row.Przyjazd),
                                              acc.previous_dep)
                      dep == AddDaysWhileLess(time_to_list(row.Odjazd), arr)
                  IN  [acc EXCEPT
                         !.stops_used = @ \cup {<<stop_id, stop_name>>},
                         !.previous_dep = dep,
                         !.stop_times = Append(@,
                             [trip_id |-> trip_id, stop_sequence |-> seq,
                              stop_id |-> stop_id,
                              arrival_time |-> time_to_str(arr),
                              departure_time |-> time_to_str(dep),
                              platform |-> Platform(row)])]
        ELSE [acc EXCEPT !.stops_invalid = @ \cup {InvalidEntry(row)}]

RECURSIVE StopTimesLoop(_, _, _, _, _)
StopTimesLoop(acc, known, trip_id, rows, i) ==
    IF i > Len(rows) THEN acc
    ELSE StopTimesLoop(StopTimeStep(acc, known, trip_id, i - 1, rows[i]),
                       known, trip_id, rows, i + 1)

\* The tuple appended to self.transfers when leg_suffix > 0
TransferOf(train_id, leg_suffix, leg_rows) ==
    <<leg_rows[1].NumerStacji, PrevLegId(train_id, leg_suffix),
      LegId(train_id, leg_suffix)>>

\* A plausible slip: previous_dep = [0, 0, 0] is set anew for every leg
LegStepResetDep(acc, known, train_id, category, service_id, headsign, leg_suffix, leg_rows) ==
    IF acc.failed THEN acc
    ELSE LET leg_id     == LegId(train_id, leg_suffix)
             leg_is_bus == leg_rows[1].BUS = 1
             leg_cat    == RouteId(category, leg_is_bus)
             acc1 == [acc EXCEPT
                        !.trips = Append(@, [route_id |-> leg_cat,
                                             service_id |-> service_id,
                                             trip_id |-> leg_id,
                                             trip_headsign |-> headsign]),
                        !.routes = @ \cup {leg_cat},
                        !.services = @ \cup {service_id},
                        !.transfers = IF leg_suffix > 0
                                      THEN Append(@, TransferOf(train_id, leg_suffix,
                                                                leg_rows))
                                      ELSE @,
                        !.previous_dep = <<0, 0, 0>>]
         IN  StopTimesLoop(acc1, known, leg_id, leg_rows, 1)

\* The body of `for leg_suffix, leg_rows in enumerate(train_legs(valid_rows))`
LegStep(acc, known, train_id, category, service_id, headsign, leg_suffix, leg_rows) ==
    IF acc.failed THEN acc
    ELSE LET leg_id     == LegId(train_id, leg_suffix)
             leg_is_bus == leg_rows[1].BUS = 1
             leg_cat    == RouteId(category, leg_is_bus)
             acc1 == [acc EXCEPT
                        !.trips = Append(@, [route_id |-> leg_cat,
                                             service_id |-> service_id,
                                             trip_id |-> leg_id,
                                             trip_headsign |-> headsign]),
                        !.routes = @ \cup {leg_cat},
                        !.services = @ \cup {service_id},
                        !.transfers = IF leg_suffix > 0
                                      THEN Append(@, TransferOf(train_id, leg_suffix,
                                                                leg_rows))
                                      ELSE @]
         IN  StopTimesLoop(acc1, known, leg_id, leg_rows, 1)

RECURSIVE LegsEmitLoop(_, _, _, _, _, _, _, _)
LegsEmitLoop(acc, known, train_id, category, service_id, headsign, all_legs, k) ==
    IF k > Len(all_legs) THEN acc
    ELSE LegsEmitLoop(LegStep(acc, known, train_id, category, service_id,
                              headsign, k - 1, all_legs[k]),
                      known, train_id, category, service_id, headsign,
                      all_legs, k + 1)

\* multiple_legs = len({i["BUS"] for i in valid_rows}) > 1
MultipleLegs(valid_rows) == Cardinality({valid_rows[i].BUS : i \in 1..Len(valid_rows)}) > 1

\* len(valid_rows) <= 1
TooShort(valid_rows) == Len(valid_rows) <= 1

\* The body of `for train_rows in train_loader("rozklad.csv")`
TrainStep(acc, known, train_rows) ==
    LET valid_rows == ValidRows(train_rows)
        category   == CollapseSpaces(train_rows[1].KategoriaHandlowa)
        service_id == train_rows[1].DataOdjazdu
        train_id   == TrainId(train_rows[1])
        headsign   == valid_rows[Len(valid_rows)].NazwaStacji
    IN  IF acc.failed \/ TooShort(valid_rows) THEN acc
        ELSE IF ~MultipleLegs(valid_rows)
        THEN LET is_bus == valid_rows[1].BUS = 1
                 cat    == RouteId(category, is_bus)
                 acc1   == [acc EXCEPT
                              !.trips = Append(@, [route_id |-> cat,
                                                   service_id |-> service_id,
                                                   trip_id |-> train_id,
                                                   trip_headsign |-> headsign]),
                              !.routes = @ \cup {cat},
                              !.services = @ \cup {service_id},
                              !.previous_dep = <<0, 0, 0>>]
             IN  StopTimesLoop(acc1, known, train_id, valid_rows, 1)
        ELSE LegsEmitLoop([acc EXCEPT !.previous_dep = <<0, 0, 0>>], known,
                          train_id, category, service_id, headsign,
                          train_legs(valid_rows), 1)

RECURSIVE TrainsLoop(_, _, _, _)
TrainsLoop(acc, known, trains, t) ==
    IF t > Len(trains) THEN acc
    ELSE TrainsLoop(TrainStep(acc, known, trains[t]), known, trains, t + 1)

\* save_trips over the whole file
save_trips(rows, known) == TrainsLoop(EmptyAcc, known, train_loader(rows), 1)

-----------------------------------------------------------------------------
(* Inputs *)

\* Longest train of the leg / transfer specification
MaxRows == 5

\* "HH:MM:SS" from its three numbers
Clock(h, m, sec) == <<Pad2(h), Pad2(m), Pad2(sec)>>

Date1 == "2024-01-02"
Nr1 == <<"3", "8", "1", "0", "0", "/", "1">>
Nr2 == <<"5", "3", "1", "0", "7">>

\* The canonical stop names of the runs modelled
KnownStops == {"WARSZAWA", "BOGUMIN"}

\* Row lp of a train: station lp, arriving at lp:00 and leaving at lp:10
BaseRow(date, nr, lp) ==
    [DataOdjazdu |-> date, NrPociagu |-> nr, Lp |-> lp, StacjaHandlowa |-> "1",
     NumerStacji |-> lp, NazwaStacji |-> "Warszawa",
     Przyjazd |-> Clock(lp, 0, 0), Odjazd |-> Clock(lp, 10, 0),
     PeronWjazd |-> "", PeronWyjazd |-> "", TorWjazd |-> "", TorWyjazd |-> "",
     BUS |-> 0, KategoriaHandlowa |-> "IC", DrogaKumulowanaMetry |-> lp * 1000]

\* What a row of the leg / transfer specification varies in
LegChoices == [BUS : {0, 1}, NazwaStacji : {"Warszawa", "Nigdzie"}]

LegTrain(choice) ==
    [i \in 1..Len(choice) |->
        [BaseRow(Date1, Nr1, i) EXCEPT !.BUS = choice[i].BUS,
                                       !.NazwaStacji = choice[i].NazwaStacji]]

LegFiles == {LegTrain(c) : c \in SeqsOf(LegChoices, 1, MaxRows)}

-----------------------------------------------------------------------------
(* The standalone converter on one file *)

\* Before any fetch and any run of create
NoVersion == 0

NoRun ==
    /\ upstream = 1
    /\ version_txt = NoVersion
    /\ self_version = NoVersion
    /\ ignore_version = FALSE
    /\ new_version = FALSE
    /\ run_pc = "idle"
    /\ gtfs = {}
    /\ touched = FALSE
    /\ completed = {}
    /\ prev_run = [version |-> NoVersion, outcome |-> "none"]
    /\ last_modified = NoVersion
    /\ fetch_call = [conditional |-> FALSE, server |-> NoVersion, had |-> NoVersion]
    /\ fetch_result = [outcome |-> "none", yielded |-> FALSE]

\* No row grouper is stepped through
NoGrouper ==
    /\ grouper = "none"
    /\ reader = 0
    /\ loader = [previous_train_id |-> None, previous_train_data |-> <<>>]
    /\ train_groups = <<>>

\* No row object is tracked by reference
NoHeap ==
    /\ heap = <<>>
    /\ leg_refs = <<>>

NoOutput ==
    /\ trips = <<>> /\ stop_times = <<>> /\ transfers = <<>>
    /\ stops_used = {} /\ stops_invalid = {} /\ routes = {} /\ services = {}

Init ==
    /\ csv \in LegFiles
    /\ stops = KnownStops
    /\ pc = "loaded"
    /\ legs = <<>>
    /\ NoOutput
    /\ NoRun
    /\ NoGrouper
    /\ NoHeap

\* PKPIntercityGTFS.save_trips
SaveTrips ==
    /\ pc = "loaded"
    /\ LET acc == save_trips(csv, stops)
       IN  /\ trips' = acc.trips
           /\ stop_times' = acc.stop_times
           /\ transfers' = acc.transfers
           /\ stops_used' = acc.stops_used
           /\ stops_invalid' = acc.stops_invalid
           /\ routes' = acc.routes
           /\ services' = acc.services
           /\ pc' = IF acc.failed THEN "failed" ELSE "saved"
    /\ UNCHANGED <<csv, stops, legs, runVars, fetchVars, loaderVars, heapVars>>

Next == SaveTrips

Spec == Init /\ [][Next]_vars

-----------------------------------------------------------------------------
(* Claims on the leg splitter and the emitter, specification Spec *)

\* The single train of the file, its commercial rows and its legs
TheValidRows == ValidRows(csv)
TheLegs == train_legs(TheValidRows)
TheTrainId == TrainId(csv[1])
Modes(rows) == [i \in 1..Len(rows) |-> rows[i].BUS]
Stations(rows) == [i \in 1..Len(rows) |-> rows[i].NumerStacji]
TripIds == [i \in 1..Len(trips) |-> trips[i].trip_id]

\* C2: a train of 3 commercial rows with modes train, bus, train is emitted as
\* exactly 2 legs, [row1, boundary(row2)] and [row2, row3], and exactly one
\* transfer at row2's stop from the first leg's trip to the second leg's trip.
C2_ScenarioB_TwoLegsOneTransfer ==
    (pc = "saved" /\ Modes(TheValidRows) = <<0, 1, 0>>) =>
        /\ Len(TheLegs) = 2
        /\ Stations(TheLegs[1]) = <<TheValidRows[1].NumerStacji, TheValidRows[2].NumerStacji>>
        /\ Stations(TheLegs[2]) = <<TheValidRows[2].NumerStacji, TheValidRows[3].NumerStacji>>
        /\ Len(trips) = 2
        /\ transfers = <<<<TheValidRows[2].NumerStacji, trips[1].trip_id, trips[2].trip_id>>>>

\* C8: no transfer record references a stop without a canonical match: the
\* stop of every recorded transfer is one of the stops written to stops.txt.
C8_TransferStopIsCanonical ==
    pc = "saved" =>
        \A k \in 1..Len(transfers) :
            \E u \in stops_used : u[1] = transfers[k][1]

\* The leg emitted under a trip id
LegOfTrip(trip_id) ==
    TheLegs[CHOOSE k \in 1..Len(TheLegs) : LegId(TheTrainId, k - 1) = trip_id]

\* C9: the stop of every transfer is the station of the last row of the leg
\* emitted as from_trip and of the first row of the leg emitted as to_trip.
C9_TransferAtSharedCouplingStop ==
    pc = "saved" =>
        \A k \in 1..Len(transfers) :
            LET from_leg == LegOfTrip(transfers[k][2])
                to_leg   == LegOfTrip(transfers[k][3])
            IN  /\ transfers[k][1] = from_leg[Len(from_leg)].NumerStacji
                /\ transfers[k][1] = to_leg[1].NumerStacji

\* C10: a train that yields exactly one leg is emitted under the base trip id
\* without a suffix, whatever modes its rows carry; a train that yields k >= 2
\* legs is emitted as k trips suffixed with 0..k-1 in leg order.
C10_SingleLegKeepsBaseId ==
    pc = "saved" =>
        /\ Len(TheLegs) = 1 => TripIds = <<TheTrainId>>
        /\ Len(TheLegs) >= 2 =>
              TripIds = [k \in 1..Len(TheLegs) |-> LegId(TheTrainId, k - 1)]

-----------------------------------------------------------------------------
(* The leg splitter alone, specification SpecLegs *)

\* Longest row list handed to train_legs
MaxSplitRows == 4

\* Which of the arrival-side and departure-side fields a row fills in
SidePatterns ==
    {[arr |-> TRUE,  dep |-> TRUE,  parr |-> TRUE,  pdep |-> TRUE],
     [arr |-> TRUE,  dep |-> FALSE, parr |-> TRUE,  pdep |-> FALSE],
     [arr |-> FALSE, dep |-> TRUE,  parr |-> FALSE, pdep |-> TRUE],
     [arr |-> TRUE,  dep |-> TRUE,  parr |-> FALSE, pdep |-> FALSE]}

SplitChoices == [BUS : {0, 1}, side : SidePatterns]

SplitRow(lp, c) ==
    [BaseRow(Date1, Nr1, lp) EXCEPT
        !.BUS = c.BUS,
        !.Przyjazd    = IF c.side.arr  THEN @ ELSE <<>>,
        !.Odjazd      = IF c.side.dep  THEN @ ELSE <<>>,
        !.PeronWjazd  = IF c.side.parr THEN "I" ELSE "",
        !.TorWjazd    = IF c.side.parr THEN "1" ELSE "",
        !.PeronWyjazd = IF c.side.pdep THEN "II" ELSE "",
        !.TorWyjazd   = IF c.side.pdep THEN "2" ELSE ""]

SplitFiles ==
    {[i \in 1..Len(c) |-> SplitRow(i, c[i])] : c \in SeqsOf(SplitChoices, 1, MaxSplitRows)}

InitLegs ==
    /\ csv \in SplitFiles
    /\ stops = KnownStops
    /\ pc = "loaded"
    /\ legs = <<>>
    /\ NoOutput
    /\ NoRun
    /\ NoGrouper
    /\ NoHeap

\* list(train_legs(rows))
TrainLegs ==
    /\ pc = "loaded"
    /\ legs' = train_legs(csv)
    /\ pc' = "split"
    /\ UNCHANGED <<csv, stops, outVars, runVars, fetchVars, loaderVars, heapVars>>

NextLegs == TrainLegs

SpecLegs == InitLegs /\ [][NextLegs]_vars

SingleMode(rows) == \A i \in 1..Len(rows) : rows[i].BUS = rows[1].BUS

\* C3 as stated: for a row list of at least 2 rows of one mode, train_legs
\* yields exactly one leg holding every input row, in order, with every field
\* of every row equal to the input row's field.
C3_SingleModeLegIsInputUnchanged ==
    (pc = "split" /\ Len(csv) >= 2 /\ SingleMode(csv)) => legs = <<csv>>

\* C3 as amended: exactly one leg, every row but the first equal to the input
\* row, and the first row equal to the first input row except that its arrival
\* time, platform and track hold the departure ones wherever those are filled.
C3_SingleModeLegIsInputWithDepartureOnlyHead ==
    (pc = "split" /\ Len(csv) >= 2 /\ SingleMode(csv)) =>
        /\ Len(legs) = 1
        /\ Len(legs[1]) = Len(csv)
        /\ \A i \in 2..Len(csv) : legs[1][i] = csv[i]
        /\ legs[1][1] =
              [csv[1] EXCEPT
                 !.Przyjazd   = IF csv[1].Odjazd # <<>> THEN csv[1].Odjazd ELSE @,
                 !.PeronWjazd = IF csv[1].PeronWyjazd # "" THEN csv[1].PeronWyjazd ELSE @,
                 !.TorWjazd   = IF csv[1].TorWyjazd # "" THEN csv[1].TorWyjazd ELSE @]

\* A single-mode list whose first row is changed by the split
C3_Witness ==
    /\ pc = "split" /\ Len(csv) >= 2 /\ SingleMode(csv)
    /\ Len(legs) = 1
    /\ legs[1][1] # csv[1]
    /\ legs[1][1].Przyjazd = csv[1].Odjazd
    /\ legs[1][1].PeronWjazd = csv[1].PeronWyjazd

-----------------------------------------------------------------------------
(* The pipeline task: src/pkpic_gtfs/load_csv.py *)

MINUTE == 60
HOUR == 60 * MINUTE
DAY == 24 * HOUR

\* parse_time: h * HOUR + m * MINUTE + s
parse_time(x) == StrToInt(x[1]) * HOUR + StrToInt(x[2]) * MINUTE + StrToInt(x[3])

\* ROMAN_TO_ARABIC.get(base, base) with the "a" suffix kept, on the platform
\* strings the inputs use
normalize_platform(x) ==
    CASE x = "I"   -> "1"
      [] x = "II"  -> "2"
      [] x = "Ia"  -> "1a"
      [] OTHER     -> x

\* pax_rows = filter(lambda r: r["StacjaHandlowa"] == "1", all_rows)
PaxRows(all_rows) == SelectSeq(all_rows, LAMBDA r : r.StacjaHandlowa = "1")

\* groupby(pax_rows, itemgetter("DataOdjazdu", "NrPociagu")): a new group
\* whenever the key differs from the previous row's
RECURSIVE GroupBy(_, _, _, _)
GroupBy(rows, i, current, yielded) ==
    IF i > Len(rows)
    THEN IF current # <<>> THEN Append(yielded, current) ELSE yielded
    ELSE IF current # <<>> /\ RowKey(current[1]) = RowKey(rows[i])
         THEN GroupBy(rows, i + 1, Append(current, rows[i]), yielded)
         ELSE GroupBy(rows, i + 1, <<rows[i]>>,
                      IF current # <<>> THEN Append(yielded, current) ELSE yielded)

train_rows(all_rows) == GroupBy(PaxRows(all_rows), 1, <<>>, <<>>)

\* if t < lower: t += DAY
ShiftOnce(t, lower) == IF t < lower THEN t + DAY ELSE t

\* The body of `for idx, row in enumerate(rows)` of parse_train
ParseStep(st, trip_id, dist_offset, idx, row) ==
    IF st.failed THEN st
    ELSE IF ~(TimeParses(row.Przyjazd) /\ TimeParses(row.Odjazd))
    THEN [st EXCEPT !.failed = TRUE]
    ELSE LET arr == ShiftOnce(parse_time(row.Przyjazd), st.previous_dep)
             dep == ShiftOnce(parse_time(row.Odjazd), arr)
             platform == IF row.BUS = 1 \/ row.PeronWyjazd = "BUS" THEN "BUS"
                         ELSE normalize_platform(OrStr(row.PeronWyjazd, row.PeronWjazd))
         IN  [st EXCEPT
                !.previous_dep = dep,
                !.stop_times = Append(@,
                    [trip_id |-> trip_id, stop_sequence |-> idx,
                     stop_id |-> row.NumerStacji,
                     arrival_time |-> arr, departure_time |-> dep,
                     platform |-> platform,
                     fare_dist_m |-> row.DrogaKumulowanaMetry - dist_offset,
                     stop_name |-> row.NazwaStacji])]

RECURSIVE ParseLoop(_, _, _, _, _)
ParseLoop(st, trip_id, dist_offset, rows, i) ==
    IF i > Len(rows) THEN st
    ELSE ParseLoop(ParseStep(st, trip_id, dist_offset, i - 1, rows[i]),
                   trip_id, dist_offset, rows, i + 1)

\* parse_train(rows) -> (trip, stop_times)
parse_train(rows) ==
    LET trip_id == TrainId(rows[1])
        st == ParseLoop([previous_dep |-> 0, stop_times |-> <<>>, failed |-> FALSE],
                        trip_id, rows[1].DrogaKumulowanaMetry, rows, 1)
    IN  [trip |-> [route_id |-> <<CollapseSpaces(rows[1].KategoriaHandlowa)>>,
                   service_id |-> rows[1].DataOdjazdu,
                   trip_id |-> trip_id],
         stop_times |-> st.stop_times,
         failed |-> st.failed]

\* LoadCSV.execute: save_trip and save_stop_times for every group, inside one
\* database transaction
RECURSIVE ExecuteLoop(_, _, _)
ExecuteLoop(acc, groups, g) ==
    IF g > Len(groups) \/ acc.failed THEN acc
    ELSE LET parsed == parse_train(groups[g])
         IN  IF parsed.failed THEN [acc EXCEPT !.failed = TRUE]
             ELSE ExecuteLoop(
                    [acc EXCEPT
                       !.trips = Append(@, parsed.trip),
                       !.routes = @ \cup {parsed.trip.route_id},
                       !.services = @ \cup {parsed.trip.service_id},
                       !.stops_used = @ \cup {<<parsed.stop_times[k].stop_id,
                                                parsed.stop_times[k].stop_name>> :
                                              k \in 1..Len(parsed.stop_times)},
                       !.stop_times = @ \o parsed.stop_times],
                    groups, g + 1)

execute(all_rows) == ExecuteLoop(EmptyAcc, train_rows(all_rows), 1)

\* Longest train of the pipeline specification
MaxPipeRows == 3

PipeClocks == {Clock(23, 50, 0), Clock(0, 10, 0)}

PipeChoices == [StacjaHandlowa : {"0", "1"}, Przyjazd : PipeClocks, Odjazd : PipeClocks]

PipeFiles ==
    {[i \in 1..Len(c) |->
        [BaseRow(Date1, Nr1, i) EXCEPT !.StacjaHandlowa = c[i].StacjaHandlowa,
                                       !.Przyjazd = c[i].Przyjazd,
                                       !.Odjazd = c[i].Odjazd]] :
     c \in SeqsOf(PipeChoices, 1, MaxPipeRows)}

InitPipeline ==
    /\ csv \in PipeFiles
    /\ stops = {}
    /\ pc = "loaded"
    /\ legs = <<>>
    /\ NoOutput
    /\ NoRun
    /\ NoGrouper
    /\ NoHeap

\* LoadCSV.execute; the transaction keeps nothing when an exception leaves it
Execute ==
    /\ pc = "loaded"
    /\ LET acc == execute(csv)
       IN  IF acc.failed
           THEN /\ pc' = "failed"
                /\ UNCHANGED outVars
           ELSE /\ trips' = acc.trips
                /\ stop_times' = acc.stop_times
                /\ routes' = acc.routes
                /\ services' = acc.services
                /\ stops_used' = acc.stops_used
                /\ pc' = "executed"
                /\ UNCHANGED <<transfers, stops_invalid>>
    /\ UNCHANGED <<csv, stops, legs, runVars, fetchVars, loaderVars, heapVars>>

NextPipeline == Execute

SpecPipeline == InitPipeline /\ [][NextPipeline]_vars

-----------------------------------------------------------------------------
(* Claims on both programs *)

\* Seconds of an emitted time: the converter writes "HH:MM:SS", the pipeline
\* stores seconds
EmittedSeconds(t) == IF pc = "executed" THEN t ELSE StrSeconds(t)

\* The stop-times written under one trip id, in the order written
StopTimesOf(trip_id) == SelectSeq(stop_times, LAMBDA st : st.trip_id = trip_id)

\* C1: for every emitted trip, over its stop-times in order,
\* arrival[i] <= departure[i] and departure[i] <= arrival[i+1] on the
\* normalized timeline.
C1_EmittedTimesOrdered ==
    pc \in {"saved", "executed"} =>
        \A t \in 1..Len(trips) :
            LET sts == StopTimesOf(trips[t].trip_id)
            IN  /\ \A i \in 1..Len(sts) :
                       EmittedSeconds(sts[i].arrival_time)
                           <= EmittedSeconds(sts[i].departure_time)
                /\ \A i \in 1..(Len(sts) - 1) :
                       EmittedSeconds(sts[i].departure_time)
                           <= EmittedSeconds(sts[i + 1].arrival_time)

\* A train is degenerate when at most one commercial row is left, or when no
\* leg of at least 2 rows comes out of its commercial rows
Degenerate(rows) ==
    LET valid == ValidRows(rows)
    IN  Len(valid) <= 1 \/ train_legs(valid) = <<>>

\* C4: a degenerate train produces no trip record and no stop-time record, in
\* the converter and in the pipeline task.
C4_DegenerateTrainEmitsNothing ==
    (pc \in {"saved", "executed"} /\ Degenerate(csv)) =>
        trips = <<>> /\ stop_times = <<>>

-----------------------------------------------------------------------------
(* The stop reconciler over several trains, specification SpecStops *)

\* Most rows of a file of the stop specification
MaxStopRows == 4

\* (NumerStacji, NazwaStacji) of a row: one known station, and one station id
\* that the export spells in three ways, none of them known
StopChoices == {<<1, "Warszawa">>, <<2, "Nigdzie">>, <<2, "NIGDZIE">>, <<2, "Krynica">>}

TrainNrs == <<Nr1, Nr2>>

StopRowChoices == [station : StopChoices, train : 1..2]

\* The export is sorted on (DataOdjazdu, NrPociagu)
SortedOnTrain(c) == \A i \in 1..(Len(c) - 1) : c[i].train <= c[i + 1].train

StopFiles ==
    {[i \in 1..Len(c) |->
        [BaseRow(Date1, TrainNrs[c[i].train], i) EXCEPT
            !.NumerStacji = c[i].station[1],
            !.NazwaStacji = c[i].station[2]]] :
     c \in {d \in SeqsOf(StopRowChoices, 1, MaxStopRows) : SortedOnTrain(d)}}

InitStops ==
    /\ csv \in StopFiles
    /\ stops = KnownStops
    /\ pc = "loaded"
    /\ legs = <<>>
    /\ NoOutput
    /\ NoRun
    /\ NoGrouper
    /\ NoHeap

NextStops == SaveTrips

SpecStops == InitStops /\ [][NextStops]_vars

\* The rows save_trips looks up in self.stops: the rows of every emitted trip
EmittedRows(train) ==
    LET valid == ValidRows(train)
    IN  IF Len(valid) <= 1 THEN {}
        ELSE IF Cardinality({valid[i].BUS : i \in 1..Len(valid)}) = 1 THEN Range(valid)
        ELSE UNION {Range(train_legs(valid)[k]) : k \in 1..Len(train_legs(valid))}

LookedUpRows == UNION {EmittedRows(train_loader(csv)[t]) : t \in 1..Len(train_loader(csv))}

\* The name a row is looked up under: upper-cased, then fixed
LookupName(row) ==
    LET upper == Upper(row.NazwaStacji)
    IN  CASE upper = "BOHUMIN" -> "BOGUMIN"
          [] upper = "KRYNICA" -> "KRYNICA ZDROJ"
          [] OTHER             -> upper

\* The station ids that are looked up and never found under any of their names
AbsentIds ==
    {r.NumerStacji : r \in LookedUpRows} \
        {r.NumerStacji : r \in {q \in LookedUpRows : LookupName(q) \in stops}}

ReportEntriesOf(id) == {e \in stops_invalid : e[1] = id}

\* C5 as stated: every station id absent from the canonical stop set is
\* carried by no emitted stop-time and occurs in exactly one entry of the
\* missing-stops report, whatever names it is referenced under.
C5_AbsentIdReportedExactlyOnce ==
    pc = "saved" =>
        \A id \in AbsentIds :
            /\ \A k \in 1..Len(stop_times) : stop_times[k].stop_id # id
            /\ Cardinality(ReportEntriesOf(id)) = 1

\* C5 as amended: every absent station id is carried by no emitted stop-time,
\* and the report holds exactly one entry per distinct (station id, looked-up
\* name) pair of the looked-up rows that have no canonical match: an id
\* referenced under k distinct unmatched names occurs in k entries.
C5_AbsentIdReportedOncePerName ==
    pc = "saved" =>
        /\ \A id \in AbsentIds :
              /\ \A k \in 1..Len(stop_times) : stop_times[k].stop_id # id
              /\ Cardinality(ReportEntriesOf(id)) =
                    Cardinality({LookupName(r) : r \in {q \in LookedUpRows :
                                                         q.NumerStacji = id}})
        /\ stops_invalid =
              {<<r.NumerStacji, LookupName(r)>> :
                 r \in {q \in LookedUpRows : LookupName(q) \notin stops}}

\* Two trains were emitted, both reference a station id under unmatched names,
\* and the report holds that id in one entry per name
C5_Witness ==
    /\ pc = "saved"
    /\ Len(trips) = 2
    /\ \E id \in AbsentIds :
          /\ Cardinality(ReportEntriesOf(id)) = 2
          /\ Cardinality({r \in LookedUpRows : r.NumerStacji = id}) >= 3

-----------------------------------------------------------------------------
(* Runs of PKPIntercityGTFS.create and calls of FTPResource.fetch,            *)
(* specification SpecRun.  Versions are the modification times of the        *)
(* archive, numbered in the order of time.                                   *)

\* Latest modification time of the archive
MaxVersion == 2

\* The files create writes into the gtfs directory
TripFiles == {"trips.txt", "stop_times.txt"}
OtherFeedFiles == {"stops.txt", "routes.txt", "transfers.txt",
                   "calendar_dates.txt", "agency.txt", "attributions.txt"}
FeedFiles == TripFiles \cup OtherFeedFiles

RunEnded == run_pc \in {"idle", "done", "failed", "unchanged"}

\* The carrier replaces the archive on the server
UpstreamModified ==
    /\ upstream < MaxVersion
    /\ upstream' = upstream + 1
    /\ UNCHANGED <<version_txt, self_version, ignore_version, new_version, run_pc,
                   gtfs, touched, completed, prev_run, fetchVars, convVars,
                   loaderVars, heapVars>>

\* create: self = cls(); self.get_file(ftp_user, ftp_pass)
GetFile ==
    /\ RunEnded
    /\ \E force \in BOOLEAN : ignore_version' = force
    /\ self_version' = upstream
    /\ new_version' = FALSE
    /\ touched' = FALSE
    /\ prev_run' = [version |-> self_version, outcome |-> run_pc]
    /\ run_pc' = "downloaded"
    /\ UNCHANGED <<upstream, version_txt, gtfs, completed, fetchVars, convVars,
                   loaderVars, heapVars>>

\* current_version != self.version
VersionDiffers(current_version, version) == current_version # version

\* PKPIntercityGTFS.version_check
VersionCheck ==
    /\ run_pc = "downloaded"
    /\ IF VersionDiffers(version_txt, self_version)
       THEN version_txt' = self_version /\ new_version' = TRUE
       ELSE version_txt' = version_txt /\ new_version' = FALSE
    /\ run_pc' = "checked"
    /\ UNCHANGED <<upstream, self_version, ignore_version, gtfs, touched,
                   completed, prev_run, fetchVars, convVars,
                   loaderVars, heapVars>>

\* A plausible slip: the force flag is not consulted
AbortsWithoutFlag(is_new, force) == ~is_new

\* (not new_version) and (not ignore_version)
Aborts(is_new, force) == (~is_new) /\ (~force)

\* create: "Current version matches previous version, aborting."
ReturnUnchanged ==
    /\ run_pc = "checked"
    /\ Aborts(new_version, ignore_version)
    /\ run_pc' = "unchanged"
    /\ UNCHANGED <<upstream, version_txt, self_version, ignore_version, new_version,
                   gtfs, touched, completed, prev_run, fetchVars, convVars,
                   loaderVars, heapVars>>

\* create: the gtfs directory is created or cleared, the stops are loaded
ClearGtfs ==
    /\ run_pc = "checked"
    /\ ~Aborts(new_version, ignore_version)
    /\ gtfs' = {}
    /\ touched' = TRUE
    /\ run_pc' = "cleared"
    /\ UNCHANGED <<upstream, version_txt, self_version, ignore_version, new_version,
                   completed, prev_run, fetchVars, convVars,
                   loaderVars, heapVars>>

\* create: self.save_trips() returns
SaveTripsReturns ==
    /\ run_pc = "cleared"
    /\ gtfs' = gtfs \cup TripFiles
    /\ run_pc' = "trips"
    /\ UNCHANGED <<upstream, version_txt, self_version, ignore_version, new_version,
                   touched, completed, prev_run, fetchVars, convVars,
                   loaderVars, heapVars>>

\* create: self.save_trips() raises on a wall-clock string that does not
\* parse; both files are open and partly written
SaveTripsRaises ==
    /\ run_pc = "cleared"
    /\ gtfs' = gtfs \cup TripFiles
    /\ run_pc' = "failed"
    /\ UNCHANGED <<upstream, version_txt, self_version, ignore_version, new_version,
                   touched, completed, prev_run, fetchVars, convVars,
                   loaderVars, heapVars>>

\* create: save_stops, save_routes, save_transfers, save_dates, save_static
SaveRest ==
    /\ run_pc = "trips"
    /\ gtfs' = gtfs \cup OtherFeedFiles
    /\ run_pc' = "written"
    /\ UNCHANGED <<upstream, version_txt, self_version, ignore_version, new_version,
                   touched, completed, prev_run, fetchVars, convVars,
                   loaderVars, heapVars>>

\* create: self.compress()
Compress ==
    /\ run_pc = "written"
    /\ completed' = completed \cup {self_version}
    /\ run_pc' = "done"
    /\ UNCHANGED <<upstream, version_txt, self_version, ignore_version, new_version,
                   gtfs, touched, prev_run, fetchVars, convVars,
                   loaderVars, heapVars>>

\* conditional and current_last_modified <= self.last_modified
NotModified(conditional, current_last_modified, stored) ==
    conditional /\ current_last_modified <= stored

\* FTPResource.fetch, consumed to its end
Fetch ==
    /\ \E conditional \in BOOLEAN :
          /\ fetch_call' = [conditional |-> conditional, server |-> upstream,
                            had |-> last_modified]
          /\ IF NotModified(conditional, upstream, last_modified)
             THEN /\ fetch_result' = [outcome |-> "InputNotModified", yielded |-> FALSE]
                  /\ UNCHANGED last_modified
             ELSE /\ fetch_result' = [outcome |-> "fetched", yielded |-> TRUE]
                  /\ last_modified' = upstream
    /\ UNCHANGED <<runVars, convVars, loaderVars, heapVars>>

InitRun ==
    /\ csv = <<>>
    /\ stops = {}
    /\ pc = "loaded"
    /\ legs = <<>>
    /\ NoOutput
    /\ NoRun
    /\ NoGrouper
    /\ NoHeap

NextRun ==
    \/ UpstreamModified
    \/ GetFile
    \/ VersionCheck
    \/ ReturnUnchanged
    \/ ClearGtfs
    \/ SaveTripsReturns
    \/ SaveTripsRaises
    \/ SaveRest
    \/ Compress
    \/ Fetch

SpecRun == InitRun /\ [][NextRun]_vars

\* This run of create follows a run that compressed a feed of the same version
RepeatsCompletedRun ==
    /\ run_pc # "idle"
    /\ prev_run.outcome = "done"
    /\ prev_run.version = self_version

\* C6: a run against the modification time of the completed run before it stops
\* right after the version check and leaves the gtfs directory alone unless it
\* is forced, and regenerates the feed when it is forced; fetch with
\* conditional=True against the stored modification time raises
\* InputNotModified before yielding, and fetches with conditional=False.
C6_UnchangedRunStopsUnlessForced ==
    /\ (RepeatsCompletedRun /\ ~ignore_version) =>
          /\ run_pc \in {"downloaded", "checked", "unchanged"}
          /\ ~touched
          /\ gtfs = FeedFiles
    /\ (RepeatsCompletedRun /\ ignore_version) =>
          /\ run_pc # "unchanged"
          /\ run_pc = "done" => (touched /\ gtfs = FeedFiles)
    /\ (fetch_result.outcome # "none" /\ fetch_call.server = fetch_call.had) =>
          IF fetch_call.conditional
          THEN fetch_result = [outcome |-> "InputNotModified", yielded |-> FALSE]
          ELSE /\ fetch_result = [outcome |-> "fetched", yielded |-> TRUE]
               /\ last_modified = fetch_call.server

\* An unforced second run has stopped after the version check, and a
\* conditional fetch of an unchanged archive has raised
C6_Witness ==
    /\ RepeatsCompletedRun
    /\ ~ignore_version
    /\ run_pc = "unchanged"
    /\ ~touched
    /\ fetch_call.conditional
    /\ fetch_call.server = fetch_call.had
    /\ fetch_result.outcome = "InputNotModified"

\* C7: the marker is written once at the end of a run, after the feed files:
\* whenever no run is under way, version.txt holds a version only if some run
\* against that version completed feed generation, so an unforced run stops as
\* unchanged only for a version whose feed was generated.
C7_MarkerOnlyAfterCompletedRun ==
    /\ (RunEnded /\ version_txt # NoVersion) => version_txt \in completed
    /\ run_pc = "unchanged" => self_version \in completed

-----------------------------------------------------------------------------
(* The row groupers, taken row by row: specification SpecGroup.  The file is  *)
(* sorted on (DataOdjazdu, NrPociagu), as the export is.                     *)

\* Most rows of a file of the grouper specification
MaxGroupRows == 4

Date2 == "2024-01-03"

\* The (DataOdjazdu, NrPociagu) pairs of the files, in sort order
GroupKeys == <<<<Date1, Nr1>>, <<Date1, Nr2>>, <<Date2, Nr1>>>>

GroupRowChoices == [key : 1..Len(GroupKeys), StacjaHandlowa : {"0", "1"}]

SortedOnKey(c) == \A i \in 1..(Len(c) - 1) : c[i].key <= c[i + 1].key

GroupFiles ==
    {[i \in 1..Len(c) |->
        [BaseRow(GroupKeys[c[i].key][1], GroupKeys[c[i].key][2], i) EXCEPT
            !.StacjaHandlowa = c[i].StacjaHandlowa]] :
     c \in {d \in SeqsOf(GroupRowChoices, 0, MaxGroupRows) : SortedOnKey(d)}}

\* previous_train_id = None, previous_train_data = []; None is written <<>>,
\* which no key equals
InitGroup ==
    /\ csv \in GroupFiles
    /\ stops = {}
    /\ pc = "loaded"
    /\ legs = <<>>
    /\ NoOutput
    /\ NoRun
    /\ NoHeap
    /\ grouper \in {"train_loader", "train_rows"}
    /\ reader = 0
    /\ loader = [previous_train_id |-> <<>>, previous_train_data |-> <<>>]
    /\ train_groups = <<>>

\* train_loader: one turn of `for row in reader`
LoaderRow ==
    /\ grouper = "train_loader"
    /\ pc = "loaded"
    /\ reader < Len(csv)
    /\ LET row == csv[reader + 1]
           train_id == RowKey(row)
       IN  IF loader.previous_train_id # train_id
           THEN /\ train_groups' = IF loader.previous_train_data # <<>>
                                   THEN Append(train_groups, loader.previous_train_data)
                                   ELSE train_groups
                /\ loader' = [previous_train_id |-> train_id,
                              previous_train_data |-> <<row>>]
           ELSE /\ loader' = [loader EXCEPT !.previous_train_data = Append(@, row)]
                /\ UNCHANGED train_groups
    /\ reader' = reader + 1
    /\ UNCHANGED <<grouper, convVars, runVars, fetchVars, heapVars>>

\* A plausible slip: the rows accumulated last are not yielded
LoaderEndNoFlush ==
    /\ grouper = "train_loader"
    /\ pc = "loaded"
    /\ reader = Len(csv)
    /\ pc' = "grouped"
    /\ UNCHANGED <<csv, stops, legs, outVars, runVars, fetchVars, heapVars,
                   grouper, reader, loader, train_groups>>

\* train_loader: the reader is exhausted, `if previous_train_data: yield`
LoaderEnd ==
    /\ grouper = "train_loader"
    /\ pc = "loaded"
    /\ reader = Len(csv)
    /\ train_groups' = IF loader.previous_train_data # <<>>
                       THEN Append(train_groups, loader.previous_train_data)
                       ELSE train_groups
    /\ pc' = "grouped"
    /\ UNCHANGED <<csv, stops, legs, outVars, runVars, fetchVars, heapVars,
                   grouper, reader, loader>>

\* train_rows under `list(i)` of LoadCSV.execute: filter takes the next row of
\* the file and passes it on if it is commercial; groupby closes the group
\* being listed when the key of the row differs from the group's
GroupByRow ==
    /\ grouper = "train_rows"
    /\ pc = "loaded"
    /\ reader < Len(csv)
    /\ LET row == csv[reader + 1]
       IN  IF row.StacjaHandlowa # "1"
           THEN UNCHANGED <<loader, train_groups>>
           ELSE IF loader.previous_train_data # <<>>
                   /\ loader.previous_train_id = RowKey(row)
           THEN /\ loader' = [loader EXCEPT !.previous_train_data = Append(@, row)]
                /\ UNCHANGED train_groups
           ELSE /\ train_groups' = IF loader.previous_train_data # <<>>
                                   THEN Append(train_groups, loader.previous_train_data)
                                   ELSE train_groups
                /\ loader' = [previous_train_id |-> RowKey(row),
                              previous_train_data |-> <<row>>]
    /\ reader' = reader + 1
    /\ UNCHANGED <<grouper, convVars, runVars, fetchVars, heapVars>>

\* train_rows: the file is exhausted, the group being listed is complete
GroupByEnd ==
    /\ grouper = "train_rows"
    /\ pc = "loaded"
    /\ reader = Len(csv)
    /\ train_groups' = IF loader.previous_train_data # <<>>
                       THEN Append(train_groups, loader.previous_train_data)
                       ELSE train_groups
    /\ pc' = "grouped"
    /\ UNCHANGED <<csv, stops, legs, outVars, runVars, fetchVars, heapVars,
                   grouper, reader, loader>>

NextGroup ==
    \/ LoaderRow
    \/ LoaderEnd
    \/ GroupByRow
    \/ GroupByEnd

SpecGroup == InitGroup /\ [][NextGroup]_vars

\* The rows of a list of groups, group after group
RECURSIVE Concat(_)
Concat(gs) == IF gs = <<>> THEN <<>> ELSE gs[1] \o Concat(Tail(gs))

KeyOf(row) == <<row.DataOdjazdu, row.NrPociagu>>

\* What C11 asks of the groups yielded out of a row stream of which `taken`
\* rows have been read: they hold rows of one key each, adjacent groups differ
\* in key, with the rows still accumulated they are the rows read so far in
\* order, nothing of an earlier key is still held back, and when the stream has
\* ended nothing is held back and there is one group per distinct key.
GroupsOf(stream, taken) ==
    LET held == IF pc = "grouped" THEN <<>> ELSE loader.previous_train_data
    IN  /\ \A g \in 1..Len(train_groups) :
              /\ train_groups[g] # <<>>
              /\ \A i \in 1..Len(train_groups[g]) :
                    KeyOf(train_groups[g][i]) = KeyOf(train_groups[g][1])
        /\ \A g \in 1..(Len(train_groups) - 1) :
              KeyOf(train_groups[g][1]) # KeyOf(train_groups[g + 1][1])
        /\ Concat(train_groups) \o held = SubSeq(stream, 1, taken)
        /\ \A i \in 1..Len(held) : KeyOf(held[i]) = KeyOf(stream[taken])
        /\ pc = "grouped" =>
              /\ taken = Len(stream)
              /\ Len(train_groups) = Cardinality({KeyOf(stream[i]) : i \in 1..Len(stream)})

\* C11 as stated: over a file sorted on (DataOdjazdu, NrPociagu), train_loader
\* and train_rows yield one group per distinct key of the rows of the file:
\* every row of a group has the group's key, adjacent groups differ in key, the
\* groups concatenate to the rows of the file in file order, a group is yielded
\* as soon as a row of another key is read, and the last one at the end.
C11_GroupsAreTheFileRows ==
    grouper # "none" => GroupsOf(csv, reader)

\* C11 as amended: the same, where the row stream of train_loader is the rows
\* of the file and the row stream of train_rows is the rows of the file with
\* StacjaHandlowa = "1".
C11_GroupsAreTheStreamRows ==
    /\ grouper = "train_loader" => GroupsOf(csv, reader)
    /\ grouper = "train_rows" =>
          GroupsOf(SelectSeq(csv, LAMBDA r : r.StacjaHandlowa = "1"),
                   Len(SelectSeq(SubSeq(csv, 1, reader),
                                 LAMBDA r : r.StacjaHandlowa = "1")))

\* train_rows has grouped a file of two trains that holds a row without
\* passenger exchange between two commercial rows of one train
C11_Witness ==
    /\ grouper = "train_rows"
    /\ pc = "grouped"
    /\ Len(train_groups) = 2
    /\ \E i \in 2..(Len(csv) - 1) :
          /\ csv[i].StacjaHandlowa = "0"
          /\ csv[i - 1].StacjaHandlowa = "1" /\ csv[i + 1].StacjaHandlowa = "1"
          /\ KeyOf(csv[i - 1]) = KeyOf(csv[i + 1])
    /\ train_groups = train_rows(csv)

-----------------------------------------------------------------------------
(* The time fixups of both programs on trains that run past midnight:          *)
(* specification SpecTimes.  One file is handed to save_trips and to          *)
(* LoadCSV.execute.                                                          *)

\* Longest train of the times specification
MaxTimeRows == 4

\* (Przyjazd, Odjazd) of a row
TimePairs ==
    {<<Clock(23, 50, 0), Clock(23, 55, 0)>>,
     <<Clock(0, 5, 0),   Clock(0, 10, 0)>>,
     <<Clock(0, 20, 0),  Clock(0, 20, 0)>>,
     <<Clock(23, 50, 0), Clock(0, 10, 0)>>}

TimeTrain(choice) ==
    [i \in 1..Len(choice) |->
        [BaseRow(Date1, Nr1, i) EXCEPT !.Przyjazd = choice[i][1],
                                       !.Odjazd = choice[i][2]]]

TimeFiles == {TimeTrain(c) : c \in SeqsOf(TimePairs, 1, MaxTimeRows)}

InitTimes ==
    /\ csv \in TimeFiles
    /\ stops = KnownStops
    /\ pc = "loaded"
    /\ legs = <<>>
    /\ NoOutput
    /\ NoRun
    /\ NoGrouper
    /\ NoHeap

NextTimes ==
    \/ SaveTrips
    \/ Execute

SpecTimes == InitTimes /\ [][NextTimes]_vars

\* The rows of the single train of the file that reach the time fixups, in the
\* order they reach them
FixedRows ==
    IF pc = "executed" THEN SelectSeq(csv, LAMBDA r : r.StacjaHandlowa = "1")
    ELSE LET valid == ValidRows(csv)
             read  == IF Len(valid) <= 1 THEN <<>>
                      ELSE IF SingleMode(valid) THEN valid
                      ELSE Concat(train_legs(valid))
         IN  SelectSeq(read, LAMBDA r : LookupName(r) \in stops)

\* Seconds in a day
DaySeconds == 86400

\* t moved forward by the least whole number of days that makes it >= lower
LeastShift(t, lower) ==
    IF t >= lower THEN t
    ELSE t + DaySeconds * ((lower - t + DaySeconds - 1) \div DaySeconds)

\* The (arrival, departure) pairs C12 describes for rows i.. of a train, in
\* seconds on the normalized timeline
RECURSIVE Normalized(_, _, _)
Normalized(rows, i, prev_dep) ==
    IF i > Len(rows) THEN <<>>
    ELSE LET arr == LeastShift(StrSeconds(rows[i].Przyjazd), prev_dep)
             dep == LeastShift(StrSeconds(rows[i].Odjazd), arr)
         IN  <<<<arr, dep>>>> \o Normalized(rows, i + 1, dep)

\* The (arrival, departure) pairs emitted, in seconds
EmittedTimes ==
    [i \in 1..Len(stop_times) |->
        <<EmittedSeconds(stop_times[i].arrival_time),
          EmittedSeconds(stop_times[i].departure_time)>>]

\* C12: for each stop in order, the emitted arrival is the raw arrival plus the
\* least whole number of days that makes it >= prev_dep, and the emitted
\* departure is the raw departure plus the least whole number of days that
\* makes it >= the emitted arrival, prev_dep being the emitted departure of the
\* stop before (0 at the first stop); in the converter and in the pipeline task.
C12_TimesShiftedByLeastWholeDays ==
    pc \in {"saved", "executed"} => EmittedTimes = Normalized(FixedRows, 1, 0)

\* The time fixups of save_trips (lines 443-456) over the emitted
\* "HH:MM:SS" strings of stop-times i.. of a trip
RECURSIVE SecondPassStr(_, _, _)
SecondPassStr(sts, i, previous_dep) ==
    IF i > Len(sts) THEN <<>>
    ELSE LET arr == AddDaysWhileLess(time_to_list(sts[i].arrival_time), previous_dep)
             dep == AddDaysWhileLess(time_to_list(sts[i].departure_time), arr)
         IN  <<<<time_to_str(arr), time_to_str(dep)>>>>
                 \o SecondPassStr(sts, i + 1, dep)

\* The time fixups of parse_train (lines 119-122, 142) over the emitted
\* seconds of stop-times i.. of a trip
RECURSIVE SecondPassSeconds(_, _, _)
SecondPassSeconds(sts, i, previous_dep) ==
    IF i > Len(sts) THEN <<>>
    ELSE LET arr == ShiftOnce(sts[i].arrival_time, previous_dep)
             dep == ShiftOnce(sts[i].departure_time, arr)
         IN  <<<<arr, dep>>>> \o SecondPassSeconds(sts, i + 1, dep)

TimesOf(sts) == [i \in 1..Len(sts) |-> <<sts[i].arrival_time, sts[i].departure_time>>]

\* C13: the time fixups are idempotent: fed the emitted arrival and departure
\* times of a trip, with prev_dep starting at 0, they return the same times;
\* in the converter and in the pipeline task.
C13_SecondPassChangesNothing ==
    /\ pc = "saved" =>
          \A t \in 1..Len(trips) :
              LET sts == StopTimesOf(trips[t].trip_id)
              IN  SecondPassStr(sts, 1, <<0, 0, 0>>) = TimesOf(sts)
    /\ pc = "executed" =>
          \A t \in 1..Len(trips) :
              LET sts == StopTimesOf(trips[t].trip_id)
              IN  SecondPassSeconds(sts, 1, 0) = TimesOf(sts)

-----------------------------------------------------------------------------
(* save_trips on trains that change mode and run past midnight:               *)
(* specification SpecCarry                                                    *)

\* Longest train of the carry specification
MaxCarryRows == 4

CarryPairs ==
    {<<Clock(23, 50, 0), Clock(23, 55, 0)>>,
     <<Clock(0, 5, 0),   Clock(0, 10, 0)>>,
     <<Clock(0, 20, 0),  Clock(0, 20, 0)>>}

CarryChoices == [BUS : {0, 1}, times : CarryPairs]

CarryTrain(choice) ==
    [i \in 1..Len(choice) |->
        [BaseRow(Date1, Nr1, i) EXCEPT !.BUS = choice[i].BUS,
                                       !.Przyjazd = choice[i].times[1],
                                       !.Odjazd = choice[i].times[2]]]

CarryFiles == {CarryTrain(c) : c \in SeqsOf(CarryChoices, 1, MaxCarryRows)}

InitCarry ==
    /\ csv \in CarryFiles
    /\ stops = KnownStops
    /\ pc = "loaded"
    /\ legs = <<>>
    /\ NoOutput
    /\ NoRun
    /\ NoGrouper
    /\ NoHeap

NextCarry == SaveTrips

SpecCarry == InitCarry /\ [][NextCarry]_vars

\* C14: in save_trips prev_dep is carried over the whole train: for a train
\* emitted as several legs, the first emitted arrival of a leg is >= the last
\* emitted departure of the leg before it, and the emitted times are
\* non-decreasing over the stop-times of all legs of the train in order.
C14_TimesNonDecreasingAcrossLegs ==
    pc = "saved" =>
        /\ \A t \in 1..(Len(trips) - 1) :
              LET this == StopTimesOf(trips[t].trip_id)
                  next == StopTimesOf(trips[t + 1].trip_id)
              IN  (this # <<>> /\ next # <<>>) =>
                      StrSeconds(this[Len(this)].departure_time)
                          <= StrSeconds(next[1].arrival_time)
        /\ \A i \in 1..Len(stop_times) :
              StrSeconds(stop_times[i].arrival_time)
                  <= StrSeconds(stop_times[i].departure_time)
        /\ \A i \in 1..(Len(stop_times) - 1) :
              StrSeconds(stop_times[i].departure_time)
                  <= StrSeconds(stop_times[i + 1].arrival_time)

\* A train emitted as two legs whose first leg ends after midnight: the second
\* leg's first row reads 00:20:00 in the file and is emitted on the next day
C14_Witness ==
    /\ pc = "saved"
    /\ Len(trips) = 2
    /\ LET first  == StopTimesOf(trips[1].trip_id)
           second == StopTimesOf(trips[2].trip_id)
       IN  /\ Len(first) >= 3 /\ Len(second) >= 2
           /\ first[Len(first)].departure_time = Clock(24, 20, 0)
           /\ second[1].stop_id = first[Len(first)].stop_id
           /\ csv[second[1].stop_id].Odjazd = Clock(0, 20, 0)
           /\ second[1].arrival_time = Clock(24, 20, 0)

-----------------------------------------------------------------------------
(* Claims on the stop-times of a trip, specification Spec *)

\* The rows save_trips walks for the t-th trip it writes: the commercial rows
\* of a train of one mode, the t-th leg otherwise
TripRows(t) == IF SingleMode(TheValidRows) THEN TheValidRows ELSE TheLegs[t]

\* The rows among them whose station has a canonical match
MatchedRows(t) == SelectSeq(TripRows(t), LAMBDA r : LookupName(r) \in stops)

\* C15: a row without canonical match is dropped without aborting the train or
\* the leg: the stop-times of every emitted trip are exactly the rows of its leg
\* whose station is canonical, one per row and in row order, and their sequence
\* indices start at 0 with the first emitted stop-time and strictly increase.
C15_StopTimesAreMatchedRowsFromZero ==
    pc = "saved" =>
        \A t \in 1..Len(trips) :
            LET sts == StopTimesOf(trips[t].trip_id)
            IN  /\ [i \in 1..Len(sts) |-> sts[i].stop_id]
                      = [i \in 1..Len(MatchedRows(t)) |-> MatchedRows(t)[i].NumerStacji]
                /\ sts # <<>> => sts[1].stop_sequence = 0
                /\ \A i \in 1..(Len(sts) - 1) :
                      sts[i].stop_sequence < sts[i + 1].stop_sequence

\* C18: every trip record written by save_trips has at least 2 stop-time
\* records written under its trip id, whatever the input and the canonical stop
\* set, trains with unmatched stations included.
C18_EveryTripHasTwoStopTimes ==
    pc = "saved" =>
        \A t \in 1..Len(trips) : Len(StopTimesOf(trips[t].trip_id)) >= 2

-----------------------------------------------------------------------------
(* Claims on the legs train_legs yields, specification SpecLegs.  Row i of    *)
(* the list handed to train_legs has Lp = i.                                 *)

\* The copy of a row that C16 describes as departure-only
DepartureOnly(row) ==
    [row EXCEPT !.Przyjazd   = IF row.Odjazd # <<>> THEN row.Odjazd ELSE @,
                !.PeronWjazd = IF row.PeronWyjazd # "" THEN row.PeronWyjazd ELSE @,
                !.TorWjazd   = IF row.TorWyjazd # "" THEN row.TorWyjazd ELSE @]

\* The copy of a row that C16 describes as arrival-only, tagged with a mode
ArrivalOnly(row, mode) ==
    [row EXCEPT !.BUS         = mode,
                !.Odjazd      = IF row.Przyjazd # <<>> THEN row.Przyjazd ELSE @,
                !.PeronWyjazd = IF row.PeronWjazd # "" THEN row.PeronWjazd ELSE @,
                !.TorWyjazd   = IF row.TorWjazd # "" THEN row.TorWjazd ELSE @]

\* C16: every leg yielded by train_legs has at least 2 rows, all of one mode;
\* its first row is the departure-only copy of the row that started the leg,
\* with that row's mode; the rows after it are the input rows that follow; and
\* a leg closed at a split point ends with the arrival-only copy of the
\* split-point row tagged with the mode of the leg being closed, not with the
\* split-point row's own mode.
C16_LegShape ==
    pc = "split" =>
        \A k \in 1..Len(legs) :
            LET leg   == legs[k]
                n     == Len(leg)
                first == leg[1].Lp
                last  == leg[n].Lp
            IN  /\ n >= 2
                /\ \A i \in 1..n : leg[i].BUS = leg[1].BUS
                /\ last = first + n - 1
                /\ leg[1] = DepartureOnly(csv[first])
                /\ \A i \in 2..(n - 1) : leg[i] = csv[first + i - 1]
                /\ IF csv[last].BUS = csv[first].BUS
                   THEN leg[n] = csv[last]
                   ELSE /\ leg[n] = ArrivalOnly(csv[last], csv[last - 1].BUS)
                        /\ leg[n].BUS # csv[last].BUS

\* A leg was closed at a split point: its last row is the split-point row with
\* the departure time overwritten by the arrival time and the mode of the leg
C16_Witness ==
    /\ pc = "split"
    /\ Len(legs) = 2
    /\ LET leg == legs[1]
           split == csv[leg[Len(leg)].Lp]
       IN  /\ split.BUS # leg[1].BUS
           /\ split.Przyjazd # <<>> /\ split.Odjazd # <<>>
           /\ split.Odjazd # split.Przyjazd
           /\ leg[Len(leg)].Odjazd = split.Przyjazd
           /\ leg[Len(leg)].BUS = leg[1].BUS
           /\ legs[2][1].Przyjazd = split.Odjazd

-----------------------------------------------------------------------------
(* train_legs over row objects: specification SpecRefs.  A row is a dict, and *)
(* a list of rows holds references to dicts.  A reference is an index into   *)
(* heap; the rows handed to train_legs are the objects 1..Len(csv), and csv   *)
(* keeps their content as it was before the call.                            *)

\* A plausible slip: the row is not copied, the function works on its argument
copy_alias(h, ref) == [heap |-> h, ref |-> ref]

\* copy(row): a new dict with the items of row
copy(h, ref) == [heap |-> Append(h, h[ref]), ref |-> Len(h) + 1]

\* row_dep_only(row, set_bus), on references
row_dep_only_ref(h, ref, set_bus) ==
    LET c  == copy(h, ref)
        r  == c.ref
        h1 == IF set_bus # None THEN [c.heap EXCEPT ![r].BUS = set_bus] ELSE c.heap
        h2 == [h1 EXCEPT ![r].Przyjazd = OrTime(h1[r].Odjazd, h1[r].Przyjazd)]
        h3 == [h2 EXCEPT ![r].PeronWjazd = OrStr(h2[r].PeronWyjazd, h2[r].PeronWjazd)]
        h4 == [h3 EXCEPT ![r].TorWjazd = OrStr(h3[r].TorWyjazd, h3[r].TorWjazd)]
    IN  [heap |-> h4, ref |-> r]

\* row_arr_only(row, set_bus), on references
row_arr_only_ref(h, ref, set_bus) ==
    LET c  == copy(h, ref)
        r  == c.ref
        h1 == IF set_bus # None THEN [c.heap EXCEPT ![r].BUS = set_bus] ELSE c.heap
        h2 == [h1 EXCEPT ![r].Odjazd = OrTime(h1[r].Przyjazd, h1[r].Odjazd)]
        h3 == [h2 EXCEPT ![r].PeronWyjazd = OrStr(h2[r].PeronWjazd, h2[r].PeronWyjazd)]
        h4 == [h3 EXCEPT ![r].TorWyjazd = OrStr(h3[r].TorWjazd, h3[r].TorWyjazd)]
    IN  [heap |-> h4, ref |-> r]

\* train_legs(rows), on references: `for row in rows` from the i-th row on
RECURSIVE LegsLoopRef(_, _, _, _, _, _)
LegsLoopRef(h, rows, i, previous_bus_value, leg_so_far, yielded) ==
    IF i > Len(rows)
    THEN [heap |-> h,
          legs |-> IF Len(leg_so_far) > 1 THEN Append(yielded, leg_so_far)
                   ELSE yielded]
    ELSE LET row == rows[i]
             current_bus_value == h[row].BUS
         IN  IF current_bus_value # previous_bus_value
             THEN LET closes   == Len(leg_so_far) > 1
                      boundary == row_arr_only_ref(h, row, Xor1(current_bus_value))
                      h1       == IF closes THEN boundary.heap ELSE h
                      head     == row_dep_only_ref(h1, row, None)
                  IN  LegsLoopRef(head.heap, rows, i + 1, current_bus_value,
                                  <<head.ref>>,
                                  IF closes
                                  THEN Append(yielded, Append(leg_so_far, boundary.ref))
                                  ELSE yielded)
             ELSE LegsLoopRef(h, rows, i + 1, previous_bus_value,
                              Append(leg_so_far, row), yielded)

train_legs_ref(h, rows) == LegsLoopRef(h, rows, 1, None, <<>>, <<>>)

InitRefs ==
    /\ csv \in SplitFiles
    /\ stops = KnownStops
    /\ pc = "loaded"
    /\ legs = <<>>
    /\ NoOutput
    /\ NoRun
    /\ NoGrouper
    /\ heap = csv
    /\ leg_refs = <<>>

\* list(train_legs(rows)), rows being the list of the objects read from the file
TrainLegsRef ==
    /\ pc = "loaded"
    /\ LET done == train_legs_ref(heap, [i \in 1..Len(csv) |-> i])
       IN  /\ heap' = done.heap
           /\ leg_refs' = done.legs
           /\ legs' = [k \in 1..Len(done.legs) |->
                          [i \in 1..Len(done.legs[k]) |-> done.heap[done.legs[k][i]]]]
    /\ pc' = "split"
    /\ UNCHANGED <<csv, stops, outVars, runVars, fetchVars, loaderVars>>

NextRefs == TrainLegsRef

SpecRefs == InitRefs /\ [][NextRefs]_vars

\* The legs closed at a split point: their last row is not an input object
ClosedAtSplit == {k \in 1..Len(leg_refs) : leg_refs[k][Len(leg_refs[k])] > Len(csv)}

\* C17: row_dep_only, row_arr_only and train_legs never change their input:
\* when train_legs has been consumed, every input row has every field as it was
\* before the call, and for every leg closed at a split point the arrival-only
\* boundary row and the departure-only first row of the leg that the split
\* point starts are both derived from the split-point row as it was in the
\* input.
C17_InputRowsUnchanged ==
    pc = "split" =>
        /\ Len(heap) >= Len(csv)
        /\ \A i \in 1..Len(csv) : heap[i] = csv[i]
        /\ \A k \in 1..Len(leg_refs) :
              /\ leg_refs[k][1] > Len(csv)
              /\ heap[leg_refs[k][1]] = DepartureOnly(csv[heap[leg_refs[k][1]].Lp])
        /\ \A k \in ClosedAtSplit :
              LET boundary == heap[leg_refs[k][Len(leg_refs[k])]]
                  split    == csv[boundary.Lp]
              IN  /\ boundary = ArrivalOnly(split, IF split.BUS = 0 THEN 1 ELSE 0)
                  /\ k < Len(leg_refs) =>
                        (heap[leg_refs[k + 1][1]].Lp = boundary.Lp =>
                            heap[leg_refs[k + 1][1]] = DepartureOnly(split))

\* Two legs were yielded around a split-point row: both copies differ from the
\* row, and the row is as it was
C17_Witness ==
    /\ pc = "split"
    /\ Len(leg_refs) = 2
    /\ 1 \in ClosedAtSplit
    /\ LET boundary == heap[leg_refs[1][Len(leg_refs[1])]]
           head     == heap[leg_refs[2][1]]
       IN  /\ head.Lp = boundary.Lp
           /\ boundary # csv[boundary.Lp]
           /\ head # csv[boundary.Lp]
           /\ boundary.Odjazd # head.Odjazd
           /\ heap[boundary.Lp] = csv[boundary.Lp]

=============================================================================
